---- MODULE Spec2Model ----
(***************************************************************************)
(* vite-plugin-ops: the dependency classification engine of src/index.ts.  *)
(*                                                                         *)
(* A JavaScript string is modelled as the sequence of its characters (one  *)
(* one-character TLA+ string per character), so that prefix tests,         *)
(* substring tests and the regular expressions of the source are computed  *)
(* character by character.                                                 *)
(***************************************************************************)
EXTENDS Integers, Sequences, FiniteSets, TLC

(* The string literals of the source and of the inputs, spelled out. *)
Chars ==
    "react" :> <<"r","e","a","c","t">> @@
    "react-dom" :> <<"r","e","a","c","t","-","d","o","m">> @@
    "vue" :> <<"v","u","e">> @@
    "@vue/" :> <<"@","v","u","e","/">> @@
    "angular" :> <<"a","n","g","u","l","a","r">> @@
    "@angular/" :> <<"@","a","n","g","u","l","a","r","/">> @@
    "svelte" :> <<"s","v","e","l","t","e">> @@
    "redux" :> <<"r","e","d","u","x">> @@
    "react-redux" :> <<"r","e","a","c","t","-","r","e","d","u","x">> @@
    "@reduxjs/toolkit" :> <<"@","r","e","d","u","x","j","s","/","t","o","o",
        "l","k","i","t">> @@
    "mobx" :> <<"m","o","b","x">> @@
    "mobx-react" :> <<"m","o","b","x","-","r","e","a","c","t">> @@
    "zustand" :> <<"z","u","s","t","a","n","d">> @@
    "pinia" :> <<"p","i","n","i","a">> @@
    "react-router" :> <<"r","e","a","c","t","-","r","o","u","t","e","r">> @@
    "react-router-dom" :> <<"r","e","a","c","t","-","r","o","u","t","e","r",
        "-","d","o","m">> @@
    "vue-router" :> <<"v","u","e","-","r","o","u","t","e","r">> @@
    "antd" :> <<"a","n","t","d">> @@
    "@ant-design/" :> <<"@","a","n","t","-","d","e","s","i","g","n","/">> @@
    "element-plus" :> <<"e","l","e","m","e","n","t","-","p","l","u","s">> @@
    "element-ui" :> <<"e","l","e","m","e","n","t","-","u","i">> @@
    "naive-ui" :> <<"n","a","i","v","e","-","u","i">> @@
    "arco-design" :> <<"a","r","c","o","-","d","e","s","i","g","n">> @@
    "@arco-design/" :> <<"@","a","r","c","o","-","d","e","s","i","g","n","/">> @@
    "material-ui" :> <<"m","a","t","e","r","i","a","l","-","u","i">> @@
    "@mui/" :> <<"@","m","u","i","/">> @@
    "@material-ui/" :> <<"@","m","a","t","e","r","i","a","l","-","u","i","/">> @@
    "chakra" :> <<"c","h","a","k","r","a">> @@
    "@chakra-ui/" :> <<"@","c","h","a","k","r","a","-","u","i","/">> @@
    "lodash" :> <<"l","o","d","a","s","h">> @@
    "lodash-es" :> <<"l","o","d","a","s","h","-","e","s">> @@
    "moment" :> <<"m","o","m","e","n","t">> @@
    "dayjs" :> <<"d","a","y","j","s">> @@
    "axios" :> <<"a","x","i","o","s">> @@
    "echarts" :> <<"e","c","h","a","r","t","s">> @@
    "d3" :> <<"d","3">> @@
    "chart.js" :> <<"c","h","a","r","t",".","j","s">> @@
    "quill" :> <<"q","u","i","l","l">> @@
    "three" :> <<"t","h","r","e","e">> @@
    "babylon" :> <<"b","a","b","y","l","o","n">> @@
    "@babylonjs/" :> <<"@","b","a","b","y","l","o","n","j","s","/">> @@
    "utils" :> <<"u","t","i","l","s">> @@
    "@vueuse/" :> <<"@","v","u","e","u","s","e","/">> @@
    "ahooks" :> <<"a","h","o","o","k","s">> @@
    "react-use" :> <<"r","e","a","c","t","-","u","s","e">> @@
    "icons" :> <<"i","c","o","n","s">> @@
    "@iconify/" :> <<"@","i","c","o","n","i","f","y","/">> @@
    "@ant-design/icons" :> <<"@","a","n","t","-","d","e","s","i","g","n","/",
        "i","c","o","n","s">> @@
    "@heroicons/" :> <<"@","h","e","r","o","i","c","o","n","s","/">> @@
    "lucide-react" :> <<"l","u","c","i","d","e","-","r","e","a","c","t">> @@
    "form" :> <<"f","o","r","m">> @@
    "react-hook-form" :> <<"r","e","a","c","t","-","h","o","o","k","-","f",
        "o","r","m">> @@
    "formik" :> <<"f","o","r","m","i","k">> @@
    "async-validator" :> <<"a","s","y","n","c","-","v","a","l","i","d","a",
        "t","o","r">> @@
    "i18n" :> <<"i","1","8","n">> @@
    "i18next" :> <<"i","1","8","n","e","x","t">> @@
    "react-i18next" :> <<"r","e","a","c","t","-","i","1","8","n","e","x","t">> @@
    "vue-i18n" :> <<"v","u","e","-","i","1","8","n">> @@
    "vueuse" :> <<"v","u","e","u","s","e">> @@
    "vendor" :> <<"v","e","n","d","o","r">> @@
    "@types/" :> <<"@","t","y","p","e","s","/">> @@
    "/node_modules/" :> <<"/","n","o","d","e","_","m","o","d","u","l","e","s",
        "/">> @@
    ".pnpm/" :> <<".","p","n","p","m","/">> @@
    "%5C" :> <<"%","5","C">> @@
    "/proj/node_modules/@vue/reactivity/dist/index.js" :> <<
        "/","p","r","o","j","/","n","o","d","e","_","m","o","d","u","l","e",
        "s","/","@","v","u","e","/","r","e","a","c","t","i","v","i","t","y",
        "/","d","i","s","t","/","i","n","d","e","x",".","j","s">> @@
    "/proj/node_modules/.pnpm/@vue+reactivity@3.2.0/node_modules/@vue/reactivity/dist/index.js" :> <<
        "/","p","r","o","j","/","n","o","d","e","_","m","o","d","u","l","e",
        "s","/",".","p","n","p","m","/","@","v","u","e","+","r","e","a","c",
        "t","i","v","i","t","y","@","3",".","2",".","0","/","n","o","d","e",
        "_","m","o","d","u","l","e","s","/","@","v","u","e","/","r","e","a",
        "c","t","i","v","i","t","y","/","d","i","s","t","/","i","n","d","e",
        "x",".","j","s">> @@
    "/proj/node_modules/react-dom/index.js" :> <<
        "/","p","r","o","j","/","n","o","d","e","_","m","o","d","u","l","e",
        "s","/","r","e","a","c","t","-","d","o","m","/","i","n","d","e","x",
        ".","j","s">> @@
    "/proj/node_modules/react-helmet/index.js" :> <<
        "/","p","r","o","j","/","n","o","d","e","_","m","o","d","u","l","e",
        "s","/","r","e","a","c","t","-","h","e","l","m","e","t","/","i","n",
        "d","e","x",".","j","s">> @@
    "/proj/node_modules/react/index.js" :> <<
        "/","p","r","o","j","/","n","o","d","e","_","m","o","d","u","l","e",
        "s","/","r","e","a","c","t","/","i","n","d","e","x",".","j","s">> @@
    "/proj/node_modules/.pnpm/react@18.2.0/node_modules/react/index.js" :> <<
        "/","p","r","o","j","/","n","o","d","e","_","m","o","d","u","l","e",
        "s","/",".","p","n","p","m","/","r","e","a","c","t","@","1","8",".",
        "2",".","0","/","n","o","d","e","_","m","o","d","u","l","e","s","/",
        "r","e","a","c","t","/","i","n","d","e","x",".","j","s">> @@
    "C:\\proj\\node_modules\\vue\\index.js" :> <<
        "C",":","\\","p","r","o","j","\\","n","o","d","e","_","m","o","d","u",
        "l","e","s","\\","v","u","e","\\","i","n","d","e","x",".","j","s">> @@
    "/proj/src/main.ts" :> <<"/","p","r","o","j","/","s","r","c","/","m","a",
        "i","n",".","t","s">> @@
    "/p/node_modules/axios/index.js" :> <<
        "/","p","/","n","o","d","e","_","m","o","d","u","l","e","s","/","a",
        "x","i","o","s","/","i","n","d","e","x",".","j","s">> @@
    "/p/node_modules/vue/index.js" :> <<"/","p","/","n","o","d","e","_","m",
        "o","d","u","l","e","s","/","v","u","e","/","i","n","d","e","x",".",
        "j","s">> @@
    "/p/node_modules/core/index.js" :> <<
        "/","p","/","n","o","d","e","_","m","o","d","u","l","e","s","/","c",
        "o","r","e","/","i","n","d","e","x",".","j","s">> @@
    "/p/node_modules/@vueuse/core/index.js" :> <<
        "/","p","/","n","o","d","e","_","m","o","d","u","l","e","s","/","@",
        "v","u","e","u","s","e","/","c","o","r","e","/","i","n","d","e","x",
        ".","j","s">> @@
    "/p/node_modules/a/index.js" :> <<"/","p","/","n","o","d","e","_","m","o",
        "d","u","l","e","s","/","a","/","i","n","d","e","x",".","j","s">> @@
    "/p/node_modules/b/index.js" :> <<"/","p","/","n","o","d","e","_","m","o",
        "d","u","l","e","s","/","b","/","i","n","d","e","x",".","j","s">> @@
    "/p/node_modules/@types/a/index.js" :> <<
        "/","p","/","n","o","d","e","_","m","o","d","u","l","e","s","/","@",
        "t","y","p","e","s","/","a","/","i","n","d","e","x",".","j","s">> @@
    "/p/node_modules/lodash/index.js" :> <<
        "/","p","/","n","o","d","e","_","m","o","d","u","l","e","s","/","l",
        "o","d","a","s","h","/","i","n","d","e","x",".","j","s">> @@
    "/p/node_modules/@babel/core/index.js" :> <<
        "/","p","/","n","o","d","e","_","m","o","d","u","l","e","s","/","@",
        "b","a","b","e","l","/","c","o","r","e","/","i","n","d","e","x",".",
        "j","s">> @@
    "/p/node_modules/d3/src/index.js" :> <<
        "/","p","/","n","o","d","e","_","m","o","d","u","l","e","s","/","d",
        "3","/","s","r","c","/","i","n","d","e","x",".","j","s">> @@
    "/p/node_modules/echarts/index.js" :> <<
        "/","p","/","n","o","d","e","_","m","o","d","u","l","e","s","/","e",
        "c","h","a","r","t","s","/","i","n","d","e","x",".","j","s">> @@
    "/p/my_node_modules/vue/index.js" :> <<
        "/","p","/","m","y","_","n","o","d","e","_","m","o","d","u","l","e",
        "s","/","v","u","e","/","i","n","d","e","x",".","j","s">> @@
    "/index.js" :> <<"/","i","n","d","e","x",".","j","s">> @@
    "@1.0.0/node_modules/" :> <<"@","1",".","0",".","0","/","n","o","d","e",
        "_","m","o","d","u","l","e","s","/">> @@
    "a" :> <<"a">> @@
    "b" :> <<"b">> @@
    "@types/a" :> <<"@","t","y","p","e","s","/","a">> @@
    "core" :> <<"c","o","r","e">> @@
    "@vueuse/core" :> <<"@","v","u","e","u","s","e","/","c","o","r","e">> @@
    "react-helmet" :> <<"r","e","a","c","t","-","h","e","l","m","e","t">> @@
    "mylib" :> <<"m","y","l","i","b">> @@
    "g" :> <<"g">> @@
    "first" :> <<"f","i","r","s","t">> @@
    "second" :> <<"s","e","c","o","n","d">> @@
    "babel" :> <<"b","a","b","e","l">> @@
    "/@babel/" :> <<"/","@","b","a","b","e","l","/">> @@
    "x" :> <<"x">> @@
    "charts" :> <<"c","h","a","r","t","s">> @@
    "/lodash/" :> <<"/","l","o","d","a","s","h","/">> @@
    "node_modules/" :> <<"n","o","d","e","_","m","o","d","u","l","e","s","/">> @@
    "/p/node_modules/" :> <<"/","p","/","n","o","d","e","_","m","o","d","u",
        "l","e","s","/">> @@
    "@vue" :> <<"@","v","u","e">> @@
    "@angular" :> <<"@","a","n","g","u","l","a","r">> @@
    "@ant-design" :> <<"@","a","n","t","-","d","e","s","i","g","n">> @@
    "/p/node_modules/react-helmet/index.js" :> <<
        "/","p","/","n","o","d","e","_","m","o","d","u","l","e","s","/","r",
        "e","a","c","t","-","h","e","l","m","e","t","/","i","n","d","e","x",
        ".","j","s">> @@
    "/proj/node_modules/.pnpm/react-dom@18.2.0/node_modules/react-dom/index.js" :> <<
        "/","p","r","o","j","/","n","o","d","e","_","m","o","d","u","l","e",
        "s","/",".","p","n","p","m","/","r","e","a","c","t","-","d","o","m",
        "@","1","8",".","2",".","0","/","n","o","d","e","_","m","o","d","u",
        "l","e","s","/","r","e","a","c","t","-","d","o","m","/","i","n","d",
        "e","x",".","j","s">> @@
    "/proj/node_modules/.pnpm/react-helmet@6.1.0/node_modules/react-helmet/index.js" :> <<
        "/","p","r","o","j","/","n","o","d","e","_","m","o","d","u","l","e",
        "s","/",".","p","n","p","m","/","r","e","a","c","t","-","h","e","l",
        "m","e","t","@","6",".","1",".","0","/","n","o","d","e","_","m","o",
        "d","u","l","e","s","/","r","e","a","c","t","-","h","e","l","m","e",
        "t","/","i","n","d","e","x",".","j","s">> @@
    "/proj/node_modules/vue/index.js" :> <<
        "/","p","r","o","j","/","n","o","d","e","_","m","o","d","u","l","e",
        "s","/","v","u","e","/","i","n","d","e","x",".","j","s">> @@
    "/proj/node_modules/.pnpm/vue@3.2.0/node_modules/vue/index.js" :> <<
        "/","p","r","o","j","/","n","o","d","e","_","m","o","d","u","l","e",
        "s","/",".","p","n","p","m","/","v","u","e","@","3",".","2",".","0",
        "/","n","o","d","e","_","m","o","d","u","l","e","s","/","v","u","e",
        "/","i","n","d","e","x",".","j","s">> @@
    "/proj/node_modules/vue-router/index.js" :> <<
        "/","p","r","o","j","/","n","o","d","e","_","m","o","d","u","l","e",
        "s","/","v","u","e","-","r","o","u","t","e","r","/","i","n","d","e",
        "x",".","j","s">> @@
    "/proj/node_modules/.pnpm/vue-router@4.0.0/node_modules/vue-router/index.js" :> <<
        "/","p","r","o","j","/","n","o","d","e","_","m","o","d","u","l","e",
        "s","/",".","p","n","p","m","/","v","u","e","-","r","o","u","t","e",
        "r","@","4",".","0",".","0","/","n","o","d","e","_","m","o","d","u",
        "l","e","s","/","v","u","e","-","r","o","u","t","e","r","/","i","n",
        "d","e","x",".","j","s">> @@
    "/proj/node_modules/@vue/reactivity-transform/dist/index.js" :> <<
        "/","p","r","o","j","/","n","o","d","e","_","m","o","d","u","l","e",
        "s","/","@","v","u","e","/","r","e","a","c","t","i","v","i","t","y",
        "-","t","r","a","n","s","f","o","r","m","/","d","i","s","t","/","i",
        "n","d","e","x",".","j","s">> @@
    "/proj/node_modules/.pnpm/@vue+reactivity-transform@3.2.0/node_modules/@vue/reactivity-transform/dist/index.js" :> <<
        "/","p","r","o","j","/","n","o","d","e","_","m","o","d","u","l","e",
        "s","/",".","p","n","p","m","/","@","v","u","e","+","r","e","a","c",
        "t","i","v","i","t","y","-","t","r","a","n","s","f","o","r","m","@",
        "3",".","2",".","0","/","n","o","d","e","_","m","o","d","u","l","e",
        "s","/","@","v","u","e","/","r","e","a","c","t","i","v","i","t","y",
        "-","t","r","a","n","s","f","o","r","m","/","d","i","s","t","/","i",
        "n","d","e","x",".","j","s">> @@
    "/proj/node_modules/lodash/index.js" :> <<
        "/","p","r","o","j","/","n","o","d","e","_","m","o","d","u","l","e",
        "s","/","l","o","d","a","s","h","/","i","n","d","e","x",".","j","s">> @@
    "/proj/node_modules/.pnpm/lodash@4.17.21/node_modules/lodash/index.js" :> <<
        "/","p","r","o","j","/","n","o","d","e","_","m","o","d","u","l","e",
        "s","/",".","p","n","p","m","/","l","o","d","a","s","h","@","4",".",
        "1","7",".","2","1","/","n","o","d","e","_","m","o","d","u","l","e",
        "s","/","l","o","d","a","s","h","/","i","n","d","e","x",".","j","s">> @@
    "/proj/node_modules/lodash-es/index.js" :> <<
        "/","p","r","o","j","/","n","o","d","e","_","m","o","d","u","l","e",
        "s","/","l","o","d","a","s","h","-","e","s","/","i","n","d","e","x",
        ".","j","s">> @@
    "/proj/node_modules/lodash.debounce/index.js" :> <<
        "/","p","r","o","j","/","n","o","d","e","_","m","o","d","u","l","e",
        "s","/","l","o","d","a","s","h",".","d","e","b","o","u","n","c","e",
        "/","i","n","d","e","x",".","j","s">> @@
    "/proj/node_modules/.pnpm/lodash.debounce@4.0.8/node_modules/lodash.debounce/index.js" :> <<
        "/","p","r","o","j","/","n","o","d","e","_","m","o","d","u","l","e",
        "s","/",".","p","n","p","m","/","l","o","d","a","s","h",".","d","e",
        "b","o","u","n","c","e","@","4",".","0",".","8","/","n","o","d","e",
        "_","m","o","d","u","l","e","s","/","l","o","d","a","s","h",".","d",
        "e","b","o","u","n","c","e","/","i","n","d","e","x",".","j","s">> @@
    "@vue/reactivity" :> <<"@","v","u","e","/","r","e","a","c","t","i","v",
        "i","t","y">> @@
    "@vue/reactivity-transform" :> <<"@","v","u","e","/","r","e","a","c","t",
        "i","v","i","t","y","-","t","r","a","n","s","f","o","r","m">> @@
    "lodash.debounce" :> <<"l","o","d","a","s","h",".","d","e","b","o","u",
        "n","c","e">> @@
    "/node_modules/.pnpm/" :> <<"/","n","o","d","e","_","m","o","d","u","l",
        "e","s","/",".","p","n","p","m","/">>

S(str) == Chars[str]

(***************************************************************************)
(* String primitives of the JavaScript runtime, on character sequences.    *)
(***************************************************************************)

\* lit occurs in s at the 1-based position i.
StartsWithAt(s, i, lit) ==
    /\ i >= 1
    /\ i + Len(lit) - 1 <= Len(s)
    /\ \A k \in 1..Len(lit) : s[i + k - 1] = lit[k]

\* String.prototype.startsWith
startsWith(s, lit) == StartsWithAt(s, 1, lit)

\* String.prototype.includes
includes(s, lit) == \E i \in 1..(Len(s) + 1) : StartsWithAt(s, i, lit)

\* String.prototype.replace with a global pattern that matches the literal
\* text from, and a one-character replacement to: every occurrence, left to
\* right, becomes to.  (No two occurrences of the patterns of the source,
\* a backslash and %5C, overlap.)  Dropped marks the characters removed.
Dropped == ""

replaceAll(s, from, to) ==
    LET mark(i) ==
            IF StartsWithAt(s, i, from) THEN to
            ELSE IF \E h \in (i - Len(from) + 1)..(i - 1) :
                        StartsWithAt(s, h, from)
                 THEN Dropped
                 ELSE s[i]
        marked == [i \in 1..Len(s) |-> mark(i)]
    IN  SelectSeq(marked, LAMBDA c : c # Dropped)

\* Case folding of the 'i' flag (ASCII letters).
LowerOf ==
    "A" :> "a" @@ "B" :> "b" @@ "C" :> "c" @@ "D" :> "d" @@ "E" :> "e" @@
    "F" :> "f" @@ "G" :> "g" @@ "H" :> "h" @@ "I" :> "i" @@ "J" :> "j" @@
    "K" :> "k" @@ "L" :> "l" @@ "M" :> "m" @@ "N" :> "n" @@ "O" :> "o" @@
    "P" :> "p" @@ "Q" :> "q" @@ "R" :> "r" @@ "S" :> "s" @@ "T" :> "t" @@
    "U" :> "u" @@ "V" :> "v" @@ "W" :> "w" @@ "X" :> "x" @@ "Y" :> "y" @@
    "Z" :> "z"

Lower(c) == IF c \in DOMAIN LowerOf THEN LowerOf[c] ELSE c

\* lit occurs in s at position i, ignoring case.
StartsWithAtCI(s, i, lit) ==
    /\ i >= 1
    /\ i + Len(lit) - 1 <= Len(s)
    /\ \A k \in 1..Len(lit) : Lower(s[i + k - 1]) = Lower(lit[k])

(***************************************************************************)
(* Pattern values.  options.groups holds strings and RegExp objects; the   *)
(* preset tables and the dependency names are strings.  A RegExp object    *)
(* carries its identity obj (two patterns with the same obj are the same   *)
(* object), its flag global and its source, which the model restricts to   *)
(* literal text (as in /\/@babel\//).                                      *)
(***************************************************************************)
Str(chars) == [re |-> FALSE, text |-> chars]

RegExpObject(obj, chars, global) ==
    [re |-> TRUE, text |-> chars, global |-> global, obj |-> obj]

(***************************************************************************)
(* normalizeId                                                             *)
(***************************************************************************)
normalizeId(id) ==
    replaceAll(replaceAll(id, <<"\\">>, "/"), S("%5C"), "/")

(***************************************************************************)
(* makeNodeModulesPattern                                                  *)
(***************************************************************************)

\* The characters of the class [.*+?^${}()|[\]\\].
RegExpSpecial ==
    {".", "*", "+", "?", "^", "$", "{", "}", "(", ")", "|", "[", "]", "\\"}

\* pkg.replace(/[.*+?^${}()|[\]\\]/g, '\\$&')
RECURSIVE escapeRegExp(_)
escapeRegExp(pkg) ==
    IF pkg = <<>> THEN <<>>
    ELSE IF Head(pkg) \in RegExpSpecial
         THEN <<"\\", Head(pkg)>> \o escapeRegExp(Tail(pkg))
         ELSE <<Head(pkg)>> \o escapeRegExp(Tail(pkg))

\* The atoms new RegExp reads from a pattern text made of escaped
\* characters, dots and plain characters: \c matches c, a dot matches any
\* character but a line terminator, another character matches itself.
RECURSIVE RegExpAtoms(_)
RegExpAtoms(src) ==
    IF src = <<>> THEN <<>>
    ELSE IF Head(src) = "\\" /\ Len(src) >= 2
         THEN <<[any |-> FALSE, ch |-> src[2]]>>
              \o RegExpAtoms(SubSeq(src, 3, Len(src)))
         ELSE IF Head(src) = "."
              THEN <<[any |-> TRUE, ch |-> "."]>> \o RegExpAtoms(Tail(src))
              ELSE <<[any |-> FALSE, ch |-> Head(src)]>>
                   \o RegExpAtoms(Tail(src))

AtomMatches(a, c) ==
    IF a.any THEN c \notin {"\n", "\r"} ELSE Lower(a.ch) = Lower(c)

\* The atoms match s from position i on.
AtomsMatchAt(atoms, s, i) ==
    /\ i + Len(atoms) - 1 <= Len(s)
    /\ \A k \in 1..Len(atoms) : AtomMatches(atoms[k], s[i + k - 1])

\* The expression without its trailing (?:/|@|$).
NoBoundaryAt(s, k) == TRUE

\* (?:/|@|$) at position k of s.
BoundaryAt(s, k) == k = Len(s) + 1 \/ (k <= Len(s) /\ s[k] \in {"/", "@"})

\* Positions right after a match of (?:@[^/]+/)? at position j.
ScopeEnds(s, j) ==
    {j} \cup
    {m + 1 : m \in {m \in (j + 2)..Len(s) :
                      /\ s[j] = "@"
                      /\ s[m] = "/"
                      /\ \A q \in (j + 1)..(m - 1) : s[q] # "/"}}

\* Positions right after a match of (?:[.]pnpm/)? at position j.
PnpmEnds(s, j) ==
    {j} \cup (IF StartsWithAtCI(s, j, S(".pnpm/")) THEN {j + Len(S(".pnpm/"))} ELSE {})

\* re.test(id) for
\*   re = new RegExp(`/node_modules/(?:[.]pnpm/)?(?:${base})(?:/|@|$)`, 'i')
\* with base = scoped ? escaped : `(?:@[^/]+/)?${escaped}`.
NodeModulesRegExpTest(re, id) ==
    \E i \in 1..Len(id) :
        /\ StartsWithAtCI(id, i, S("/node_modules/"))
        /\ \E j \in PnpmEnds(id, i + Len(S("/node_modules/"))) :
             \E b \in (IF re.scoped THEN {j} ELSE ScopeEnds(id, j)) :
                /\ AtomsMatchAt(re.atoms, id, b)
                /\ BoundaryAt(id, b + Len(re.atoms))

\* The predicate returned for pkg, as the values its closure captures: the
\* caller's RegExp object, or the expression compiled from the string.
makeNodeModulesPattern(pkg) ==
    IF pkg.re
    THEN [user |-> TRUE, re |-> pkg]
    ELSE LET scoped == startsWith(pkg.text, <<"@">>)
             escaped == escapeRegExp(pkg.text)
         IN  [user |-> FALSE,
              re |-> [scoped |-> scoped, atoms |-> RegExpAtoms(escaped)]]

\* RegExp.prototype.test of a caller's RegExp object on s, with lastIndex
\* the object's lastIndex before the call: [ok, lastIndex after the call].
\* Without the global flag the search starts at 0 and lastIndex is left
\* alone; with it the search starts at lastIndex, which becomes the end of
\* the match, or 0 when there is none.
RegExpTest(re, lastIndex, s) ==
    LET from == IF re.global THEN lastIndex ELSE 0
        hits == {i \in (from + 1)..(Len(s) + 1) : StartsWithAt(s, i, re.text)}
        first == CHOOSE i \in hits : \A h \in hits : i <= h
    IN  IF ~re.global
        THEN [ok |-> hits # {}, lastIndex |-> lastIndex]
        ELSE IF hits = {}
             THEN [ok |-> FALSE, lastIndex |-> 0]
             ELSE [ok |-> TRUE, lastIndex |-> first - 1 + Len(re.text)]

\* t(id) for a predicate t of makeNodeModulesPattern, with li the lastIndex
\* of every RegExp object of the configuration: [ok, li after the call].
Apply(t, id, li) ==
    IF t.user
    THEN LET r == RegExpTest(t.re, li[t.re.obj], id)
         IN  [ok |-> r.ok, li |-> [li EXCEPT ![t.re.obj] = r.lastIndex]]
    ELSE [ok |-> NodeModulesRegExpTest(t.re, id), li |-> li]

\* testers.some((t) => t(id)): stops at the first predicate that holds.
RECURSIVE some(_, _, _)
some(testers, id, li) ==
    IF testers = <<>> THEN [ok |-> FALSE, li |-> li]
    ELSE LET r == Apply(Head(testers), id, li)
         IN  IF r.ok THEN r ELSE some(Tail(testers), id, r.li)

(***************************************************************************)
(* The preset tables, in the order Object.entries lists them.              *)
(***************************************************************************)
Entry(name, patterns) ==
    [name |-> S(name),
     patterns |-> [i \in DOMAIN patterns |-> S(patterns[i])]]

COMMON_LARGE_LIBS ==
    << Entry("react", <<"react", "react-dom">>),
       Entry("vue", <<"vue", "@vue/">>),
       Entry("angular", <<"@angular/">>),
       Entry("svelte", <<"svelte">>),
       Entry("redux", <<"redux", "react-redux", "@reduxjs/toolkit">>),
       Entry("mobx", <<"mobx", "mobx-react">>),
       Entry("zustand", <<"zustand">>),
       Entry("pinia", <<"pinia">>),
       Entry("react-router", <<"react-router", "react-router-dom">>),
       Entry("vue-router", <<"vue-router">>),
       Entry("antd", <<"antd", "@ant-design/">>),
       Entry("element-plus", <<"element-plus">>),
       Entry("element-ui", <<"element-ui">>),
       Entry("naive-ui", <<"naive-ui">>),
       Entry("arco-design", <<"@arco-design/">>),
       Entry("material-ui", <<"@mui/", "@material-ui/">>),
       Entry("chakra", <<"@chakra-ui/">>),
       Entry("lodash", <<"lodash", "lodash-es">>),
       Entry("moment", <<"moment">>),
       Entry("dayjs", <<"dayjs">>),
       Entry("axios", <<"axios">>),
       Entry("echarts", <<"echarts">>),
       Entry("d3", <<"d3">>),
       Entry("chart.js", <<"chart.js">>),
       Entry("quill", <<"quill">>),
       Entry("three", <<"three">>),
       Entry("babylon", <<"@babylonjs/">>) >>

MEDIUM_LIB_GROUPS ==
    << Entry("utils", <<"@vueuse/", "ahooks", "react-use">>),
       Entry("icons", <<"@iconify/", "@ant-design/icons", "@heroicons/",
                        "lucide-react">>),
       Entry("form", <<"react-hook-form", "formik", "async-validator">>),
       Entry("i18n", <<"i18next", "react-i18next", "vue-i18n">>) >>

veryLargeLibs ==
    {S("react"), S("vue"), S("angular"), S("antd"), S("element-plus"),
     S("echarts"), S("three")}

(***************************************************************************)
(* buildGroupMatchers                                                      *)
(***************************************************************************)

\* A sort that is not stable: an element goes ahead of the elements already
\* placed that have its key.
InsertByKeyDescUnstable(sorted, x) ==
    LET before == Cardinality({i \in DOMAIN sorted : sorted[i].key > x.key})
    IN  SubSeq(sorted, 1, before) \o <<x>>
        \o SubSeq(sorted, before + 1, Len(sorted))

\* Array.prototype.sort with a comparator that orders by key, descending:
\* the sort is stable, so each element goes behind the elements already
\* placed whose key is at least its own.  Elements are [key, val].
InsertByKeyDesc(sorted, x) ==
    LET before == Cardinality({i \in DOMAIN sorted : sorted[i].key >= x.key})
    IN  SubSeq(sorted, 1, before) \o <<x>>
        \o SubSeq(sorted, before + 1, Len(sorted))

RECURSIVE SortPrefixByKeyDesc(_, _)
SortPrefixByKeyDesc(items, n) ==
    IF n = 0 THEN <<>>
    ELSE InsertByKeyDesc(SortPrefixByKeyDesc(items, n - 1), items[n])

sortByKeyDesc(items) ==
    LET sorted == SortPrefixByKeyDesc(items, Len(items))
    IN  [i \in DOMAIN sorted |-> sorted[i].val]

\* patterns.slice().sort((a, b) => lb - la): longest string first, RegExp
\* objects counting as length 0.
sortPatterns(patterns) ==
    sortByKeyDesc([i \in DOMAIN patterns |->
        [key |-> IF patterns[i].re THEN 0 ELSE Len(patterns[i].text),
         val |-> patterns[i]]])

\* One matcher; test is testers.some((t) => t(id)).
Matcher(name, patterns, priority) ==
    [name |-> name,
     testers |-> [i \in DOMAIN patterns |-> makeNodeModulesPattern(patterns[i])],
     priority |-> priority]

Strs(texts) == [i \in DOMAIN texts |-> Str(texts[i])]

\* Custom groups (priority 100): the groups with a non-empty pattern list.
\* options.groups is the sequence of entries Object.entries returns, empty
\* when the option is absent.
customMatchers(options) ==
    LET groups == SelectSeq(options.groups, LAMBDA g : Len(g.patterns) > 0)
    IN  [i \in DOMAIN groups |->
            Matcher(groups[i].name, sortPatterns(groups[i].patterns), 100)]

\* Plugin-detected groups (priority 90).
detectedGroups(pluginHints) ==
    (IF "vue" \in pluginHints
     THEN <<Entry("vue", <<"vue", "@vue/">>)>> ELSE <<>>)
    \o (IF "vueuse" \in pluginHints
        THEN <<Entry("vueuse", <<"@vueuse/">>)>> ELSE <<>>)

detectedMatchers(pluginHints) ==
    LET groups == detectedGroups(pluginHints)
    IN  [i \in DOMAIN groups |->
            Matcher(groups[i].name, Strs(groups[i].patterns), 90)]

\* patterns.some(p => projectDeps.some(dep => dep.includes(fragment(p))))
hasAny(fragments, projectDeps) ==
    \E i \in DOMAIN fragments : \E d \in DOMAIN projectDeps :
        includes(projectDeps[d], fragments[i])

\* for the large libraries the fragment of p is p.replace(/\//g, '')
hasAnyLarge(patterns, projectDeps) ==
    hasAny([i \in DOMAIN patterns |-> replaceAll(patterns[i], <<"/">>, "")],
           projectDeps)

\* for the medium libraries, p.replace(/\//g, '').replace(/\*/g, '')
hasAnyMedium(patterns, projectDeps) ==
    hasAny([i \in DOMAIN patterns |->
               replaceAll(replaceAll(patterns[i], <<"/">>, ""), <<"*">>, "")],
           projectDeps)

\* The loop without its @types/ test.
aggressiveMatchersUnfiltered(projectDeps) ==
    [i \in DOMAIN projectDeps |->
        Matcher(projectDeps[i], <<Str(projectDeps[i])>>, 50)]

\* strategy === 'aggressive': every dependency but the @types/ ones
\* (priority 50); test is makeNodeModulesPattern(dep) itself.
aggressiveMatchers(projectDeps) ==
    LET deps == SelectSeq(projectDeps,
                          LAMBDA dep : ~startsWith(dep, S("@types/")))
    IN  [i \in DOMAIN deps |-> Matcher(deps[i], <<Str(deps[i])>>, 50)]

\* strategy === 'balanced': the large libraries present (priority 80), then
\* the medium groups present (priority 70).
balancedMatchers(projectDeps) ==
    LET large == SelectSeq(COMMON_LARGE_LIBS,
                     LAMBDA g : hasAnyLarge(g.patterns, projectDeps))
        medium == SelectSeq(MEDIUM_LIB_GROUPS,
                     LAMBDA g : hasAnyMedium(g.patterns, projectDeps))
    IN  [i \in DOMAIN large |->
            Matcher(large[i].name, Strs(large[i].patterns), 80)]
        \o [i \in DOMAIN medium |->
            Matcher(medium[i].name, Strs(medium[i].patterns), 70)]

\* The loop without its veryLargeLibs test.
conservativeMatchersAllLarge(projectDeps) ==
    LET large == SelectSeq(COMMON_LARGE_LIBS,
                     LAMBDA g : hasAnyLarge(g.patterns, projectDeps))
    IN  [i \in DOMAIN large |->
            Matcher(large[i].name, Strs(large[i].patterns), 80)]

\* strategy === 'conservative': the very large libraries present
\* (priority 80).
conservativeMatchers(projectDeps) ==
    LET large == SelectSeq(COMMON_LARGE_LIBS,
                     LAMBDA g : /\ g.name \in veryLargeLibs
                                /\ hasAnyLarge(g.patterns, projectDeps))
    IN  [i \in DOMAIN large |->
            Matcher(large[i].name, Strs(large[i].patterns), 80)]

strategyMatchers(strategy, projectDeps) ==
    CASE strategy = "aggressive" -> aggressiveMatchers(projectDeps)
      [] strategy = "balanced" -> balancedMatchers(projectDeps)
      [] strategy = "conservative" -> conservativeMatchers(projectDeps)
      [] OTHER -> <<>>

\* The comparator reversed: a.priority - b.priority.
sortMatchersAscending(matchers) ==
    sortByKeyDesc([i \in DOMAIN matchers |->
        [key |-> 0 - matchers[i].priority, val |-> matchers[i]]])

\* matchers.sort((a, b) => b.priority - a.priority)
sortMatchers(matchers) ==
    sortByKeyDesc([i \in DOMAIN matchers |->
        [key |-> matchers[i].priority, val |-> matchers[i]]])

buildGroupMatchers(options, projectDeps, pluginHints) ==
    sortMatchers(customMatchers(options)
                 \o detectedMatchers(pluginHints)
                 \o strategyMatchers(options.strategy, projectDeps))

(***************************************************************************)
(* manualChunks                                                            *)
(***************************************************************************)
Undefined == <<"undefined">>

\* A loop that forgets to return at the first match: the last match wins.
RECURSIVE lastMatch(_, _, _, _)
lastMatch(groups, n, nid, li) ==
    IF n > Len(groups) THEN [name |-> S("vendor"), li |-> li]
    ELSE LET r == some(groups[n].testers, nid, li)
             rest == lastMatch(groups, n + 1, nid, r.li)
         IN  IF r.ok /\ rest.name = S("vendor")
             THEN [name |-> groups[n].name, li |-> rest.li]
             ELSE rest

\* for (const g of groupsRef) if (g.test(nid)) return g.name
\* return 'vendor'
\* from the n-th matcher on: [name, li after the calls made].
RECURSIVE firstMatch(_, _, _, _)
firstMatch(groups, n, nid, li) ==
    IF n > Len(groups) THEN [name |-> S("vendor"), li |-> li]
    ELSE LET r == some(groups[n].testers, nid, li)
         IN  IF r.ok THEN [name |-> groups[n].name, li |-> r.li]
             ELSE firstMatch(groups, n + 1, nid, r.li)

\* A test for node_modules/ that forgets the leading separator.
inNodeModulesNoLeadingSlash(nid) == includes(nid, S("node_modules/"))

\* /\/node_modules\//.test(nid)
inNodeModules(nid) == includes(nid, S("/node_modules/"))

manualChunks(groups, id, li) ==
    LET nid == normalizeId(id)
    IN  IF ~inNodeModules(nid) THEN [name |-> Undefined, li |-> li]
        ELSE firstMatch(groups, 1, nid, li)

(***************************************************************************)
(* The plugin instance OPS(opts) and its environment.                      *)
(*                                                                         *)
(*   options      the ResolvedOptions of the instance: strategy, and       *)
(*                groups as the sequence of entries Object.entries returns *)
(*                (empty when the option is absent)                        *)
(*   dependencies the keys of "dependencies" in the project's package.json *)
(*                in the order the Set iterates them (empty when the file  *)
(*                cannot be read or parsed)                                *)
(*   plugins      the names of resolved.plugins                            *)
(*   modules      the module ids the bundler asks manualChunks about       *)
(*   groupsRef    the matcher list of the closure                          *)
(*   lastIndex    the lastIndex of each RegExp object of options.groups    *)
(*   resolved     configResolved has run                                   *)
(*   call         the last manualChunks call since the last                *)
(*                configResolved: id, lastIndex before it, value returned  *)
(*   first        history: the first observed manualChunks call since the  *)
(*                last configResolved                                      *)
(***************************************************************************)
VARIABLES options, dependencies, plugins, modules, groupsRef, lastIndex,
          resolved, call, first, invocation

vars == <<options, dependencies, plugins, modules, groupsRef, lastIndex,
          resolved, call, first, invocation>>

\* Module ids are kept as strings in the state and spelled out when used.
NoCall == [id |-> "", before |-> <<>>, name |-> <<>>]

\* What the most recent configResolved read, and whether it threw.
NoInvocation ==
    [made |-> FALSE, groups |-> <<>>, deps |-> <<>>, plugs |-> {},
     threw |-> FALSE]

\* The options OPS accepts: strategy may be absent.
Absent == "absent"

\* const options: ResolvedOptions = { strategy: opts.strategy ?? 'balanced',
\*                                    ...(opts.groups ? { groups } : {}) }
ResolveOptions(opts) ==
    [strategy |-> IF opts.strategy = Absent THEN "balanced" ELSE opts.strategy,
     groups |-> opts.groups]

\* The RegExp objects of the configuration.
RegExpObjects(opts) ==
    UNION {{opts.groups[g].patterns[p].obj :
              p \in {q \in DOMAIN opts.groups[g].patterns :
                       opts.groups[g].patterns[q].re}} :
           g \in DOMAIN opts.groups}

\* The state after OPS(opts) in a project with the given package.json
\* dependencies, plugins and modules: let groupsRef = [], and every RegExp
\* object as its literal creates it, with lastIndex 0.
Constructed(opts, deps, plugs, mods) ==
    /\ options = ResolveOptions(opts)
    /\ dependencies = deps
    /\ plugins = plugs
    /\ modules = mods
    /\ groupsRef = <<>>
    /\ lastIndex = [o \in RegExpObjects(opts) |-> 0]
    /\ resolved = FALSE
    /\ call = NoCall
    /\ first = NoCall
    /\ invocation = NoInvocation

\* A value in a group's pattern array that is neither a string nor a RegExp
\* (the array comes from the caller's JavaScript unchecked).
NotAString(v) == [re |-> FALSE, value |-> v]

IsString(pkg) == ~pkg.re /\ "text" \in DOMAIN pkg

\* makeNodeModulesPattern(pkg) throws a TypeError at pkg.startsWith('@') when
\* pkg is neither a RegExp nor a string.
makeNodeModulesPatternThrows(pkg) == ~pkg.re /\ ~IsString(pkg)

\* buildGroupMatchers throws when sorted.map(makeNodeModulesPattern) does, for
\* a custom group with a non-empty pattern array; the other tiers compile
\* string literals and dependency names only.  The list under construction
\* is a local of the function and is lost with the exception.
buildGroupMatchersThrows(opts) ==
    \E g \in DOMAIN opts.groups :
        /\ Len(opts.groups[g].patterns) > 0
        /\ \E p \in DOMAIN opts.groups[g].patterns :
               makeNodeModulesPatternThrows(opts.groups[g].patterns[p])

\* The hints configResolved derives from the plugin names.
pluginHints(pluginNames) ==
    (IF "vite:vue" \in pluginNames \/ "vite:vue-jsx" \in pluginNames
     THEN {"vue"} ELSE {})
    \cup (IF "unplugin-vue-components" \in pluginNames
          THEN {"vueuse"} ELSE {})

\* configResolved: groupsRef = buildGroupMatchers(options, projectDeps,
\* hints).  When buildGroupMatchers throws, the assignment does not happen
\* and the exception leaves the hook with groupsRef as it was.  A new build
\* invocation starts: the record of calls is reset.
ConfigResolved ==
    /\ IF buildGroupMatchersThrows(options)
       THEN /\ groupsRef' = groupsRef
            /\ resolved' = resolved
       ELSE /\ groupsRef' = buildGroupMatchers(options, dependencies,
                                               pluginHints(plugins))
            /\ resolved' = TRUE
    /\ invocation' = [made |-> TRUE, groups |-> options.groups,
                      deps |-> dependencies, plugs |-> plugins,
                      threw |-> buildGroupMatchersThrows(options)]
    /\ call' = NoCall
    /\ first' = NoCall
    /\ UNCHANGED <<options, dependencies, plugins, modules, lastIndex>>

\* The bundler asks for the chunk of module id.
Call(id) ==
    LET r == manualChunks(groupsRef, S(id), lastIndex)
    IN  /\ lastIndex' = r.li
        /\ call' = [id |-> id, before |-> lastIndex, name |-> r.name]
        /\ UNCHANGED <<options, dependencies, plugins, modules, groupsRef,
                       resolved, invocation>>

ManualChunks(id) == Call(id) /\ UNCHANGED first

\* The same call, with the first call of the invocation remembered.
ObservedManualChunks(id) ==
    /\ Call(id)
    /\ first' = IF first = NoCall THEN call' ELSE first

Next ==
    \/ ConfigResolved
    \/ \E id \in modules : ManualChunks(id)

NextObserved ==
    \/ ConfigResolved
    \/ \E id \in modules : ObservedManualChunks(id)

(***************************************************************************)
(* The configurations, projects and module ids explored.                   *)
(***************************************************************************)

\* The longest dependency list explored.
MaxDeps == 3

\* The dependency lists over the names of pool: no name twice, every order.
DepLists(pool) ==
    UNION {{[i \in 1..n |-> S(s[i])] :
              s \in {q \in [1..n -> pool] :
                       \A i, j \in 1..n : i # j => q[i] # q[j]}} :
           n \in 0..MaxDeps}

Group(name, patterns) == [name |-> S(name), patterns |-> patterns]

P(str) == Str(S(str))

Strategies == {Absent, "aggressive", "balanced", "conservative"}

Projects(groupConfigs, strategies, pool, pluginSets) ==
    [opts : [groups : groupConfigs, strategy : strategies],
     deps : DepLists(pool),
     plugs : pluginSets]

\* The general exploration: custom groups of strings and RegExp objects,
\* an empty group, a group called vendor, two groups that share a package;
\* every strategy; with and without each plugin hint.
GroupConfigs ==
    { <<>>,
      <<Group("mylib", <<P("vue")>>)>>,
      <<Group("first", <<P("vue")>>),
        Group("second", <<P("axios"), P("vue")>>)>>,
      <<Group("vendor", <<P("lodash")>>)>>,
      <<Group("x", <<>>),
        Group("babel", <<RegExpObject(1, S("/@babel/"), TRUE),
                         P("lodash")>>)>> }

PluginSets ==
    { {}, {"vite:vue"}, {"vite:vue-jsx", "unplugin-vue-components"} }

ModuleIds ==
    { "/proj/src/main.ts",
      "/p/my_node_modules/vue/index.js",
      "C:\\proj\\node_modules\\vue\\index.js",
      "/p/node_modules/axios/index.js",
      "/p/node_modules/lodash/index.js",
      "/p/node_modules/@babel/core/index.js",
      "/p/node_modules/@vueuse/core/index.js" }

Init ==
    \E p \in Projects(GroupConfigs, Strategies, {"vue", "axios"}, PluginSets) :
        Constructed(p.opts, p.deps, p.plugs, ModuleIds)

Spec == Init /\ [][Next]_vars

(***************************************************************************)
(* Properties of the resolver and of the matcher list.                     *)
(***************************************************************************)
Called == call.id # ""

\* The normalized id of the last call, and whether it lies in node_modules.
CalledNid == normalizeId(S(call.id))

CalledInNodeModules == Called /\ includes(CalledNid, S("/node_modules/"))

\* The k-th matcher of the list holds of the id of the last call, when
\* tested in the state the call started in.
MatcherHolds(k) == some(groupsRef[k].testers, CalledNid, call.before).ok

MatchersHolding == {k \in DOMAIN groupsRef : MatcherHolds(k)}

Least(set) == CHOOSE k \in set : \A h \in set : k <= h

\* C1: whatever the configuration, and also before configResolved has run,
\* a module id whose normalized form has no /node_modules/ segment gets no
\* classification: manualChunks returns undefined.
C1_OutsideNodeModulesUndefined ==
    (Called /\ ~includes(CalledNid, S("/node_modules/")))
        => call.name = Undefined

\* C1 witness: with a non-empty matcher list built, an id that has
\* node_modules/ only inside a longer directory name was left unclassified.
C1_Witness ==
    /\ resolved
    /\ Len(groupsRef) > 0
    /\ call.id = "/p/my_node_modules/vue/index.js"
    /\ call.name = Undefined

\* Pattern pkg of options.groups holds of the id of the last call.
PatternHolds(pkg) ==
    Apply(makeNodeModulesPattern(pkg), CalledNid, call.before).ok

\* The custom groups with a pattern that holds of the id of the last call.
CustomGroupsHolding ==
    {g \in DOMAIN options.groups :
        \E p \in DOMAIN options.groups[g].patterns :
            PatternHolds(options.groups[g].patterns[p])}

FirstMatcherOrVendor ==
    CalledInNodeModules =>
        /\ call.name # Undefined
        /\ IF MatchersHolding = {}
           THEN call.name = S("vendor")
           ELSE call.name = groupsRef[Least(MatchersHolding)].name

\* C5 (as stated): for an id in node_modules the result is the name of the
\* first matcher of the list that matches, it is vendor exactly when no
\* matcher matches, and it is never undefined.
C5_VendorExactlyWhenUnmatched ==
    /\ FirstMatcherOrVendor
    /\ CalledInNodeModules =>
           (call.name = S("vendor") <=> MatchersHolding = {})

\* C5 (amended): for an id in node_modules the result is the name of the
\* first matcher of the list that matches, it is vendor when no matcher
\* matches, and it is never undefined.  (A matcher may itself be called
\* vendor.)
C5_FirstMatcherOrVendor == FirstMatcherOrVendor

\* C5 witness: two matchers of the built list match the id and the earlier
\* one named the result; the later has another name.
C5_Witness ==
    /\ resolved
    /\ CalledInNodeModules
    /\ \E j, k \in MatchersHolding :
          /\ j < k
          /\ j = Least(MatchersHolding)
          /\ groupsRef[j].name # groupsRef[k].name
          /\ call.name = groupsRef[j].name

(***************************************************************************)
(* The order of the matcher list, explored over projects whose             *)
(* dependencies bring in large presets, medium presets and both hints.     *)
(***************************************************************************)
OrderGroupConfigs ==
    { <<>>,
      <<Group("first", <<P("vue")>>),
        Group("x", <<>>),
        Group("second", <<P("axios"), P("vue")>>)>> }

OrderPluginSets == { {}, {"vite:vue", "unplugin-vue-components"} }

OrderModuleIds ==
    { "/p/node_modules/axios/index.js",
      "/p/node_modules/@vueuse/core/index.js" }

InitOrder ==
    \E p \in Projects(OrderGroupConfigs,
                      {"aggressive", "balanced", "conservative"},
                      {"vue", "axios", "@vueuse/core", "vue-i18n"},
                      OrderPluginSets) :
        Constructed(p.opts, p.deps, p.plugs, OrderModuleIds)

SpecOrder == InitOrder /\ [][Next]_vars

\* The matchers of the list with priority p, in list order.
Tier(p) == SelectSeq(groupsRef, LAMBDA m : m.priority = p)

NamesOf(entries) == [i \in DOMAIN entries |-> entries[i].name]

\* The names come in the order they have in ref.
FollowsOrder(names, ref) ==
    \A i, j \in DOMAIN names :
        i < j => \E a, b \in DOMAIN ref :
                    a < b /\ ref[a] = names[i] /\ ref[b] = names[j]

AggressiveGroupConfigs == { <<>>, <<Group("g", <<P("a")>>)>> }

AggressivePluginSets == { {}, {"vite:vue"} }

AggressiveModuleIds ==
    { "/p/node_modules/a/index.js",
      "/p/node_modules/b/index.js",
      "/p/node_modules/@types/a/index.js",
      "/p/node_modules/core/index.js",
      "/p/node_modules/@vueuse/core/index.js" }

InitAggressive ==
    \E p \in Projects(AggressiveGroupConfigs, {"aggressive"},
                      {"a", "b", "@types/a", "core", "@vueuse/core"},
                      AggressivePluginSets) :
        Constructed(p.opts, p.deps, p.plugs, AggressiveModuleIds)

SpecAggressive == InitAggressive /\ [][Next]_vars

\* dep is a type declaration package.
IsTypesPackage(dep) ==
    Len(dep) >= 7 /\ SubSeq(dep, 1, 7) = <<"@", "t", "y", "p", "e", "s", "/">>

\* C7: under strategy aggressive the matchers the strategy adds are exactly
\* one per dependency that does not start with @types/, named after it,
\* with priority 50 and the predicate compiled from its name, in the order
\* of the dependency set; no preset matcher (80, 70) is added.
C7_AggressiveOnePerDependency ==
    (resolved /\ options.strategy = "aggressive") =>
        /\ NamesOf(Tier(50))
             = SelectSeq(dependencies, LAMBDA dep : ~IsTypesPackage(dep))
        /\ \A i \in DOMAIN Tier(50) :
              Tier(50)[i].testers
                = <<makeNodeModulesPattern(Str(Tier(50)[i].name))>>
        /\ \A k \in DOMAIN groupsRef : groupsRef[k].priority \in {100, 90, 50}

\* C7 witness: dependencies a, b, @types/a gave exactly the matchers a, b.
C7_Witness ==
    /\ resolved
    /\ options.strategy = "aggressive"
    /\ dependencies = <<S("a"), S("b"), S("@types/a")>>
    /\ NamesOf(Tier(50)) = <<S("a"), S("b")>>

\* A module of the package dep, in a flat node_modules directory.
PackageModule(dep) == S("/p/node_modules/") \o dep \o S("/index.js")

\* C8: under strategy aggressive with no custom groups and no hints, a
\* module inside the directory of a declared dependency d (not a @types/
\* one) is classified into the group named d.
C8_EveryDependencyItsOwnChunk ==
    (/\ resolved
     /\ options.strategy = "aggressive"
     /\ options.groups = <<>>
     /\ pluginHints(plugins) = {}
     /\ Called)
        => \A d \in DOMAIN dependencies :
              (/\ ~IsTypesPackage(dependencies[d])
               /\ S(call.id) = PackageModule(dependencies[d]))
                  => call.name = dependencies[d]

(***************************************************************************)
(* Strategy conservative.                                                  *)
(***************************************************************************)
ConservativeGroupConfigs == { <<>>, <<Group("mylib", <<P("vue")>>)>> }

ConservativePluginSets == { {}, {"vite:vue"} }

ConservativeModuleIds ==
    { "/p/node_modules/axios/index.js",
      "/p/node_modules/vue/index.js",
      "/p/node_modules/echarts/index.js",
      "/p/node_modules/react-helmet/index.js" }

InitConservative ==
    \E p \in Projects(ConservativeGroupConfigs, {"conservative"},
                      {"vue", "echarts", "axios", "react-helmet"},
                      ConservativePluginSets) :
        Constructed(p.opts, p.deps, p.plugs, ConservativeModuleIds)

SpecConservative == InitConservative /\ [][Next]_vars

\* The very large libraries, each with the name fragments looked for in the
\* dependency names.
VeryLargeFragments ==
    S("react") :> {S("react"), S("react-dom")} @@
    S("vue") :> {S("vue"), S("@vue")} @@
    S("angular") :> {S("@angular")} @@
    S("antd") :> {S("antd"), S("@ant-design")} @@
    S("element-plus") :> {S("element-plus")} @@
    S("echarts") :> {S("echarts")} @@
    S("three") :> {S("three")}

DependencySet == {dependencies[d] : d \in DOMAIN dependencies}

\* C9: under strategy conservative the only matchers the strategy adds are
\* those of react, vue, angular, antd, element-plus, echarts and three, each
\* with priority 80 and only when a fragment of it is part of the name of a
\* dependency; with dependencies vue, echarts and axios, no custom groups
\* and no hints the list is vue, echarts, and an axios module goes to
\* vendor.
C9_ConservativeVeryLargeOnly ==
    (resolved /\ options.strategy = "conservative") =>
        /\ \A k \in DOMAIN groupsRef :
              groupsRef[k].priority \notin {100, 90} =>
                  /\ groupsRef[k].priority = 80
                  /\ groupsRef[k].name \in DOMAIN VeryLargeFragments
                  /\ \E f \in VeryLargeFragments[groupsRef[k].name] :
                        \E dep \in DependencySet : includes(dep, f)
        /\ (/\ DependencySet = {S("vue"), S("echarts"), S("axios")}
            /\ options.groups = <<>>
            /\ pluginHints(plugins) = {})
              => /\ NamesOf(groupsRef) = <<S("vue"), S("echarts")>>
                 /\ call.id = "/p/node_modules/axios/index.js"
                        => call.name = S("vendor")

\* C9 witness: the scenario of the claim, at the call on the axios module.
C9_Witness ==
    /\ resolved
    /\ options.strategy = "conservative"
    /\ dependencies = <<S("vue"), S("echarts"), S("axios")>>
    /\ options.groups = <<>>
    /\ plugins = {}
    /\ NamesOf(groupsRef) = <<S("vue"), S("echarts")>>
    /\ call.id = "/p/node_modules/axios/index.js"
    /\ call.name = S("vendor")

(***************************************************************************)
(* One custom group g of string patterns, asked about the modules of the   *)
(* packages of its patterns and of packages whose names they begin, each   *)
(* in a flat node_modules directory and in a .pnpm store.                  *)
(***************************************************************************)

\* The package each module id belongs to.
PackageOf ==
    "/proj/node_modules/react/index.js" :> "react" @@
    "/proj/node_modules/.pnpm/react@18.2.0/node_modules/react/index.js"
        :> "react" @@
    "/proj/node_modules/react-dom/index.js" :> "react-dom" @@
    "/proj/node_modules/.pnpm/react-dom@18.2.0/node_modules/react-dom/index.js"
        :> "react-dom" @@
    "/proj/node_modules/react-helmet/index.js" :> "react-helmet" @@
    "/proj/node_modules/.pnpm/react-helmet@6.1.0/node_modules/react-helmet/index.js"
        :> "react-helmet" @@
    "/proj/node_modules/vue/index.js" :> "vue" @@
    "/proj/node_modules/.pnpm/vue@3.2.0/node_modules/vue/index.js"
        :> "vue" @@
    "/proj/node_modules/vue-router/index.js" :> "vue-router" @@
    "/proj/node_modules/.pnpm/vue-router@4.0.0/node_modules/vue-router/index.js"
        :> "vue-router" @@
    "/proj/node_modules/@vue/reactivity/dist/index.js"
        :> "@vue/reactivity" @@
    "/proj/node_modules/.pnpm/@vue+reactivity@3.2.0/node_modules/@vue/reactivity/dist/index.js"
        :> "@vue/reactivity" @@
    "/proj/node_modules/@vue/reactivity-transform/dist/index.js"
        :> "@vue/reactivity-transform" @@
    "/proj/node_modules/.pnpm/@vue+reactivity-transform@3.2.0/node_modules/@vue/reactivity-transform/dist/index.js"
        :> "@vue/reactivity-transform" @@
    "/proj/node_modules/lodash/index.js" :> "lodash" @@
    "/proj/node_modules/.pnpm/lodash@4.17.21/node_modules/lodash/index.js"
        :> "lodash" @@
    "/proj/node_modules/lodash-es/index.js" :> "lodash-es" @@
    "/proj/node_modules/lodash.debounce/index.js" :> "lodash.debounce" @@
    "/proj/node_modules/.pnpm/lodash.debounce@4.0.8/node_modules/lodash.debounce/index.js"
        :> "lodash.debounce"

ModulesOf(packages) == {id \in DOMAIN PackageOf : PackageOf[id] \in packages}

PatternScenarios ==
    { [patterns |-> <<P("react")>>,
       modules |-> ModulesOf({"react", "react-dom", "react-helmet"})],
      [patterns |-> <<P("react"), P("react-dom")>>,
       modules |-> ModulesOf({"react", "react-dom", "react-helmet"})],
      [patterns |-> <<P("vue")>>,
       modules |-> ModulesOf({"vue", "vue-router"})],
      [patterns |-> <<P("@vue/reactivity")>>,
       modules |-> ModulesOf({"@vue/reactivity", "@vue/reactivity-transform"})],
      [patterns |-> <<P("lodash")>>,
       modules |-> ModulesOf({"lodash", "lodash-es", "lodash.debounce"})],
      [patterns |-> <<P("@vue/")>>,
       modules |-> ModulesOf({"@vue/reactivity"})] }

InitPatterns ==
    \E sc \in PatternScenarios, strategy \in {"balanced", "aggressive"},
       deps \in DepLists({"react-helmet"}) :
        Constructed([groups |-> <<Group("g", sc.patterns)>>,
                     strategy |-> strategy],
                    deps, {}, sc.modules)

SpecPatterns == InitPatterns /\ [][Next]_vars

\* path has exactly one /node_modules/ segment, and the directory of pkg
\* right behind it.
IsFlatModuleOf(path, pkg) ==
    /\ Cardinality({i \in 1..Len(path) :
                      StartsWithAt(path, i, S("/node_modules/"))}) = 1
    /\ includes(path, S("/node_modules/") \o pkg \o <<"/">>)

\* path goes through the .pnpm store directory of pkg (its name with + for
\* /, then @version) into the directory of pkg.
IsPnpmModuleOf(path, pkg) ==
    LET dir == [i \in DOMAIN pkg |-> IF pkg[i] = "/" THEN "+" ELSE pkg[i]]
        store == S("/node_modules/.pnpm/") \o dir \o <<"@">>
    IN  \E i \in 1..Len(path) :
           /\ StartsWithAt(path, i, store)
           /\ \E j \in (i + Len(store))..Len(path) :
                 StartsWithAt(path, j, S("/node_modules/") \o pkg \o <<"/">>)

\* pkg is the beginning of the name of another package other, followed there
\* by a character that is neither / nor @.
BeginsOtherPackage(pkg, other) ==
    /\ Len(other) > Len(pkg)
    /\ SubSeq(other, 1, Len(pkg)) = pkg
    /\ other[Len(pkg) + 1] \notin {"/", "@"}

CalledPackage == S(PackageOf[call.id])

\* The module of the last call went to the custom group g.
WentToG == call.name = S("g")

\* C2 (as stated): the predicate compiled from the scope prefix '@vue/'
\* matches the modules of @vue/reactivity, in the flat layout and in the
\* .pnpm layout: with groups {g: ['@vue/']} they are classified into g.
C2_ScopePrefixMatchesItsPackages ==
    (/\ resolved
     /\ options.groups = <<Group("g", <<P("@vue/")>>)>>
     /\ call.id \in ModulesOf({"@vue/reactivity"}))
        => WentToG

\* C3: the predicate compiled from a package name does not match the
\* modules of a package whose name merely begins with it (followed by a
\* character other than / and @), in the flat layout or in the .pnpm layout,
\* and matches the modules of the package itself; and the group
\* ['react', 'react-dom'] takes the modules of react-dom and not those of
\* react-helmet.
C3_NoPrefixCollision ==
    (resolved /\ Called) =>
        /\ \/ IsFlatModuleOf(S(call.id), CalledPackage)
           \/ IsPnpmModuleOf(S(call.id), CalledPackage)
        /\ \A pkg \in {S("react"), S("vue"), S("@vue/reactivity"), S("lodash")} :
              options.groups = <<[name |-> S("g"), patterns |-> <<Str(pkg)>>]>>
                  => /\ CalledPackage = pkg => WentToG
                     /\ BeginsOtherPackage(pkg, CalledPackage) => ~WentToG
        /\ options.groups = <<Group("g", <<P("react"), P("react-dom")>>)>>
              => /\ CalledPackage = S("react-dom") => WentToG
                 /\ CalledPackage = S("react-helmet") => ~WentToG

\* C3 witness: the pattern 'lodash' was asked about a module of
\* lodash.debounce in the .pnpm store, which did not go to its group.
C3_Witness ==
    /\ resolved
    /\ options.groups = <<Group("g", <<P("lodash")>>)>>
    /\ call.id = "/proj/node_modules/.pnpm/lodash.debounce@4.0.8/node_modules/lodash.debounce/index.js"
    /\ BeginsOtherPackage(S("lodash"), CalledPackage)
    /\ IsPnpmModuleOf(S(call.id), CalledPackage)
    /\ ~WentToG

(***************************************************************************)
(* Repeated calls within one build invocation, with custom groups of       *)
(* RegExp objects (with and without the global flag) and of strings.       *)
(***************************************************************************)
RepeatGroupConfigs ==
    { <<Group("x", <<RegExpObject(1, S("lodash"), TRUE)>>)>>,
      <<Group("babel", <<RegExpObject(1, S("/@babel/"), FALSE)>>)>>,
      <<Group("mylib", <<P("lodash")>>)>> }

RepeatModuleIds ==
    { "/proj/src/main.ts",
      "/p/node_modules/lodash/index.js",
      "/p/node_modules/@babel/core/index.js" }

InitRepeat ==
    \E p \in Projects(RepeatGroupConfigs, {"balanced", "aggressive"},
                      {"lodash"}, {{}}) :
        Constructed(p.opts, p.deps, p.plugs, RepeatModuleIds)

SpecRepeat == InitRepeat /\ [][NextObserved]_vars

\* C6 (as stated): within one build invocation manualChunks returns the same
\* result for the same id however often it is called and whatever calls on
\* other ids come between, custom groups of RegExp objects included: a call
\* on the id of the first call of the invocation returns what that returned.
C6_SameIdSameResult ==
    (Called /\ call.id = first.id) => call.name = first.name

(***************************************************************************)
(* Build invocations that follow one another on the same plugin object     *)
(* (build and watch-mode rebuilds): between two invocations package.json,  *)
(* the plugin list and the caller's groups object (options.groups is       *)
(* opts.groups itself, not a copy) may change, and buildGroupMatchers may  *)
(* throw.                                                                  *)
(***************************************************************************)
RebuildGroupConfigs ==
    { <<>>,
      <<Group("mylib", <<P("lodash")>>)>>,
      <<Group("mylib", <<P("lodash")>>), Group("x", <<NotAString(42)>>)>> }

RebuildPluginSets == { {}, {"vite:vue"} }

RebuildModuleIds ==
    { "/p/node_modules/vue/index.js", "/p/node_modules/lodash/index.js" }

RebuildProjects ==
    Projects(RebuildGroupConfigs, {"balanced"}, {"vue"}, RebuildPluginSets)

InitRebuild ==
    \E p \in RebuildProjects :
        Constructed(p.opts, p.deps, p.plugs, RebuildModuleIds)

\* Between invocations the project changes: other dependencies in
\* package.json, other plugins, other entries in the groups object.
ProjectChanges(p) ==
    /\ <<p.opts.groups, p.deps, p.plugs>>
         # <<options.groups, dependencies, plugins>>
    /\ options' = [options EXCEPT !.groups = p.opts.groups]
    /\ dependencies' = p.deps
    /\ plugins' = p.plugs
    /\ UNCHANGED <<modules, groupsRef, lastIndex, resolved, call, first,
                   invocation>>

NextRebuild ==
    \/ \E p \in RebuildProjects : ProjectChanges(p)
    \/ ConfigResolved
    \/ \E id \in modules : ManualChunks(id)

SpecRebuild == InitRebuild /\ [][NextRebuild]_vars

\* The complete list buildGroupMatchers returns for what an invocation read.
CompleteList(inv) ==
    buildGroupMatchers([strategy |-> options.strategy, groups |-> inv.groups],
                       inv.deps, pluginHints(inv.plugs))

\* C11 (as stated): over any sequence of configResolved invocations, those
\* in which matcher construction aborts included, interleaved with
\* manualChunks calls, every manualChunks call made once an invocation has
\* taken place classifies against the complete list built from what the most
\* recent invocation read: never against a partial list, the initial empty
\* list or the list an earlier invocation left.
C11_CallSeesCurrentInvocationsList ==
    (Called /\ invocation.made) =>
        /\ ~invocation.threw
        /\ groupsRef = CompleteList(invocation)

====
